---- MODULE Spec2Model ----
(***************************************************************************)
(* Parking session lifecycle and tariff computation of src/app/page.tsx:   *)
(* the ParkingSystem component (in-memory React state, async handlers that *)
(* await the durable store) and the pricing engine calculateBill.          *)
(*                                                                         *)
(* Timestamps are integers counting clock units since an epoch;            *)
(* UnitsPerMinute units make one minute, so that differenceInMinutes has   *)
(* something to truncate.                                                   *)
(***************************************************************************)
EXTENDS Integers, Sequences, FiniteSets, TLC

\* an optional value (undefined / null in the source) is a sequence of
\* length 0 or 1
None == <<>>
Some(x) == <<x>>

\* ---------------------------------------------------------------- bounds
UnitsPerMinute == 2
MaxTiers == 3

\* ------------------------------------------------------ program constants
DefaultGraceTime == 15
BaselineHourRate == 50
GraceSliderStep == 5
GraceSliderMax == 60

VehicleTypes == {"bike", "car", "truck", "bus"}

Tier(h, a) == [hours |-> h, amount |-> a]

\* useState initial value of pricingRules
DefaultPricingRules ==
  [t \in VehicleTypes |->
     CASE t = "bike"  -> <<Tier(1, 20), Tier(12, 150), Tier(24, 250)>>
       [] t = "car"   -> <<Tier(1, 50), Tier(12, 500), Tier(24, 900)>>
       [] t = "truck" -> <<Tier(1, 100), Tier(12, 1000), Tier(24, 1800)>>
       [] t = "bus"   -> <<Tier(1, 80), Tier(12, 800), Tier(24, 1500)>>]

\* ------------------------------------------------------------ arithmetic
\* Math.trunc(a / b) for b > 0: rounds toward zero
TruncDiv(a, b) == IF a >= 0 THEN a \div b ELSE -((-a) \div b)

\* Math.ceil(a / b) for b > 0
CeilDiv(a, b) == IF a >= 0 THEN (a + b - 1) \div b ELSE -((-a) \div b)

\* date-fns differenceInMinutes(end, start): whole minutes, truncated
differenceInMinutes(end, start) == TruncDiv(end - start, UnitsPerMinute)

\* date-fns isBefore(a, b) / isAfter(a, b): strict comparisons of instants
isBefore(a, b) == a < b
isAfter(a, b) == a > b

\* ------------------------------------------------------------- calendar
\* Instant 0 is midnight of the last day of January of a common year; the
\* runs modelled stay within that year and the next.
DayUnits == 24 * 60 * UnitsPerMinute

\* days of month k, counted from January = 0
MonthLen(k) ==
  LET m == k % 12
  IN IF m = 1 THEN 28
     ELSE IF m \in {3, 5, 8, 10} THEN 30
     ELSE 31

EpochOffset == MonthLen(0) - 1

\* <<month, day of month>> of the n-th day counted from the first of month k
RECURSIVE MonthAndDay(_, _)
MonthAndDay(k, n) ==
  IF n < MonthLen(k) THEN <<k, n + 1>>
  ELSE MonthAndDay(k + 1, n - MonthLen(k))

\* days from the first of January to the first of month k
RECURSIVE StartOfMonth(_)
StartOfMonth(k) == IF k = 0 THEN 0 ELSE StartOfMonth(k - 1) + MonthLen(k - 1)

\* date-fns addMonths(date, n): same day of the month n months later,
\* clamped to the last day of that month; the time of day is kept
addMonths(t, n) ==
  LET md  == MonthAndDay(0, EpochOffset + t \div DayUnits)
      k   == md[1] + n
      dom == IF md[2] > MonthLen(k) THEN MonthLen(k) ELSE md[2]
  IN (StartOfMonth(k) + dom - 1 - EpochOffset) * DayUnits + (t % DayUnits)

\* ------------------------------------------------------- pricing engine

\* pricingRules[session.vehicleType] || []
currentRulesOf(rules, vehicleType) ==
  IF vehicleType \in DOMAIN rules THEN rules[vehicleType] ELSE <<>>

\* insertion of one rule into a list already sorted by hours descending,
\* after every rule with hours >= its own (Array.prototype.sort is stable)
RECURSIVE InsertDesc(_, _)
InsertDesc(r, s) ==
  IF s = <<>> THEN <<r>>
  ELSE IF Head(s).hours >= r.hours THEN <<Head(s)>> \o InsertDesc(r, Tail(s))
  ELSE <<r>> \o s

\* the rules left in stored order
sortedRulesOf_unsorted(s) == s

\* [...currentRules].sort((a, b) => b.hours - a.hours)
RECURSIVE sortedRulesOf(_)
sortedRulesOf(s) ==
  IF s = <<>> THEN <<>>
  ELSE InsertDesc(s[Len(s)], sortedRulesOf(SubSeq(s, 1, Len(s) - 1)))

\* the hours rounded down
totalHoursOf_floor(totalMinutes) == totalMinutes \div 60

\* Math.ceil(totalMinutes / 60)
totalHoursOf(totalMinutes) == CeilDiv(totalMinutes, 60)

\* the grace threshold taken as exclusive
withinGrace_exclusive(totalMinutes, grace) == totalMinutes < grace

\* totalMinutes <= graceTimeMinutes
withinGrace(totalMinutes, grace) == totalMinutes <= grace

\* Array.prototype.find: the index of the first element satisfying the test,
\* 0 when there is none (find returns undefined)
FindIndex(s, Test(_)) ==
  LET hits == {i \in 1..Len(s) : Test(s[i])}
  IN IF hits = {} THEN 0
     ELSE CHOOSE i \in hits : \A j \in hits : i <= j

\* sortedRules.find(rule => totalHours >= rule.hours)
\* the tier found by an exact match of the hours
applicableRuleOf_exactHours(sorted, totalHours) ==
  LET Test(rule) == totalHours = rule.hours IN FindIndex(sorted, Test)

applicableRuleOf(sorted, totalHours) ==
  LET Test(rule) == totalHours >= rule.hours IN FindIndex(sorted, Test)

\* the hourly rate taken from the first stored rule
baseHourRateOf_firstRule(currentRules) ==
  IF currentRules = <<>> THEN BaselineHourRate
  ELSE IF currentRules[1].amount = 0 THEN BaselineHourRate
  ELSE currentRules[1].amount

\* currentRules.find(r => r.hours === 1)?.amount || 50
baseHourRateOf(currentRules) ==
  LET Test(r) == r.hours = 1
      found == FindIndex(currentRules, Test)
  IN IF found = 0 THEN BaselineHourRate
     ELSE IF currentRules[found].amount = 0 THEN BaselineHourRate
     ELSE currentRules[found].amount

\* the exemption branch reporting no elapsed time
calculateBill_exemptZeroDuration(session, exitTime, grace, rules) ==
  LET totalMinutes == differenceInMinutes(exitTime, session.entryTime)
      currentRules == currentRulesOf(rules, session.vehicleType)
      sortedRules  == sortedRulesOf(currentRules)
      totalHours   == totalHoursOf(totalMinutes)
      applicable   == applicableRuleOf(sortedRules, totalHours)
  IN IF session.isFree
       THEN [amount |-> 0, durationMinutes |-> 0]
     ELSE IF withinGrace(totalMinutes, grace)
       THEN [amount |-> 0, durationMinutes |-> totalMinutes]
     ELSE IF applicable # 0
       THEN [amount |-> sortedRules[applicable].amount,
             durationMinutes |-> totalMinutes]
     ELSE [amount |-> totalHours * baseHourRateOf(currentRules),
           durationMinutes |-> totalMinutes]

calculateBill(session, exitTime, grace, rules) ==
  LET totalMinutes == differenceInMinutes(exitTime, session.entryTime)
      currentRules == currentRulesOf(rules, session.vehicleType)
      sortedRules  == sortedRulesOf(currentRules)
      totalHours   == totalHoursOf(totalMinutes)
      applicable   == applicableRuleOf(sortedRules, totalHours)
  IN IF session.isFree
       THEN [amount |-> 0, durationMinutes |-> totalMinutes]
     ELSE IF withinGrace(totalMinutes, grace)
       THEN [amount |-> 0, durationMinutes |-> totalMinutes]
     ELSE IF applicable # 0
       THEN [amount |-> sortedRules[applicable].amount,
             durationMinutes |-> totalMinutes]
     ELSE [amount |-> totalHours * baseHourRateOf(currentRules),
           durationMinutes |-> totalMinutes]

\* ====================================================================
\* State
\* ====================================================================
VARIABLES
  now,               \* the wall clock read by new Date()
  userId,            \* localStorage userId as read by getUserId (0: none)
  dbSessions,        \* table parking_sessions, rows in creation order
  dbPasses,          \* table membership_passes, rows in creation order
  dbSettings,        \* table system_settings: keys grace_time, pricing_rules
  sessions,          \* React state: ParkingSession[]
  passes,            \* React state: MembershipPass[]
  graceTimeMinutes,  \* React state
  pricingRules,      \* React state
  loading,           \* React state
  isFree,            \* React state: the exemption toggle of the entry form
  loadPc,            \* position of loadData
  reqs,              \* handler invocations awaiting the store, per slot
  alertMsg,          \* the alert() box on screen: <<text, what the call was
                     \* about>>; it blocks the page
  issued,            \* how many session ids and pass ids were generated,
                     \* how many operations the operator has performed, and
                     \* how often the operator flipped the exemption toggle
  billIn, billOut,   \* a pricing engine call and its result
  renewIn, renewOut  \* a renewal date computation and its result

storeVars == <<dbSessions, dbPasses, dbSettings>>
listVars == <<sessions, passes>>
settingVars == <<graceTimeMinutes, pricingRules>>
billVars == <<billIn, billOut, renewIn, renewOut>>
vars == <<now, userId, dbSessions, dbPasses, dbSettings, sessions, passes,
          graceTimeMinutes, pricingRules, loading, isFree, loadPc, reqs,
          alertMsg, issued, billIn, billOut, renewIn, renewOut>>

\* ---------------------------------------------------------------- bounds
MaxInFlight == 2
MaxOperations == 3
MaxStays == 1
MaxRenewDays == 62

\* ------------------------------------------------------------ the world
Me == 1
Other == 2
Vehicles == {"TN 01", "TN 02"}
EntryVehicleTypes == {"car"}

\* a stay lasts 90 minutes; the clock moves by a stay, forward or (a clock
\* step) back, and by half a stay where requests run one at a time
StayUnits == 90 * UnitsPerMinute
HalfStay == StayUnits \div 2
ClockJumps == {StayUnits, -StayUnits}
HalfJumps == {HalfStay, -HalfStay}
MaxTime == MaxStays * StayUnits

\* what the operator types into the settings panel
GraceInputs == {0}
HourInputs == {3}
AmountInputs == {0}

\* `PK-${Math.random()...}` and `MS-${Math.random()...}`: the n-th id
\* generated, distinct from every id generated before it
NewSessionId(n) == "PK-" \o ToString(n + 1)
NewPassId(n) == "MS-" \o ToString(n + 1)

\* rows left in the store by earlier page loads
InitialDbSessions ==
  << [id |-> "PK-0", vehicleNumber |-> "TN 01", vehicleType |-> "car",
      entryTime |-> 0, exitTime |-> None, amount |-> None,
      durationMinutes |-> None, isFree |-> FALSE, proofImage |-> None,
      status |-> "active", user_id |-> Other],
     [id |-> "PK-1", vehicleNumber |-> "TN 01", vehicleType |-> "car",
      entryTime |-> 0, exitTime |-> None, amount |-> None,
      durationMinutes |-> None, isFree |-> FALSE,
      proofImage |-> Some("data:image"), status |-> "active",
      user_id |-> Me] >>

InitialDbPasses ==
  << [id |-> "MS-0", vehicleNumber |-> "TN 01", vehicleType |-> "car",
      holderName |-> "holder", expiryDate |-> HalfStay, user_id |-> Other],
     [id |-> "MS-1", vehicleNumber |-> "TN 02", vehicleType |-> "car",
      holderName |-> "holder", expiryDate |-> HalfStay, user_id |-> Me] >>

InitialDbSettings ==
  [grace_time |-> Some(2 * DefaultGraceTime),
   pricing_rules |->
     Some([DefaultPricingRules EXCEPT !["car"] = <<Tier(1, 60)>>])]

\* ------------------------------------------------------------- helpers
\* session.map(...) of loadData: a store row as a ParkingSession
SessionOfRow(row) ==
  [id |-> row.id, vehicleNumber |-> row.vehicleNumber,
   vehicleType |-> row.vehicleType, entryTime |-> row.entryTime,
   exitTime |-> row.exitTime, amount |-> row.amount,
   durationMinutes |-> row.durationMinutes, isFree |-> row.isFree,
   proofImage |-> row.proofImage, status |-> row.status]

\* the row handleEntry inserts for a new session
RowOfSession(s, uid) ==
  [id |-> s.id, vehicleNumber |-> s.vehicleNumber,
   vehicleType |-> s.vehicleType, entryTime |-> s.entryTime,
   exitTime |-> None, amount |-> None, durationMinutes |-> None,
   isFree |-> s.isFree, proofImage |-> s.proofImage, status |-> s.status,
   user_id |-> uid]

\* pass.map(...) of loadData: a store row as a MembershipPass
PassOfRow(row) ==
  [id |-> row.id, vehicleNumber |-> row.vehicleNumber,
   vehicleType |-> row.vehicleType, holderName |-> row.holderName,
   expiryDate |-> row.expiryDate]

RowOfPass(p, uid) ==
  [id |-> p.id, vehicleNumber |-> p.vehicleNumber,
   vehicleType |-> p.vehicleType, holderName |-> p.holderName,
   expiryDate |-> p.expiryDate, user_id |-> uid]

\* a filter that lets every row through
ownedBy_anyone(row, uid) == TRUE

\* .eq("user_id", userId)
ownedBy(row, uid) == row.user_id = uid

\* .eq("user_id", userId).order("created_at", { ascending: false })
RECURSIVE SelectDesc(_, _)
SelectDesc(rows, uid) ==
  IF rows = <<>> THEN <<>>
  ELSE LET rest == SelectDesc(SubSeq(rows, 1, Len(rows) - 1), uid)
           last == rows[Len(rows)]
       IN IF ownedBy(last, uid) THEN <<last>> \o rest ELSE rest

\* the alert texts of the handlers
NoAlert == <<"", "">>
AlertAuth == "Authentication error: Please login again"
AlertDuplicate == "This vehicle is already entered in the parking area."
AlertExpired ==
  "MEMBERSHIP EXPIRED: This vehicle cannot enter until the monthly pass is recharged."
AlertEntryFailed == "System Error: Failed to log entry"
AlertNotFound == "Active session not found"
AlertExitFailed == "Error: Failed to process exit"
AlertPassFailed == "Error: Vehicle might already have a pass or system offline."
AlertPassCreated == "Monthly Membership Activated!"
AlertRechargeFailed == "Error: Failed to recharge pass."
AlertRecharged == "Membership Recharged for 1 Month!"
AlertPurged == "All your parking records have been deleted."
AlertPurgeFailed == "Failed to purge data"

\* alert(msg), raised by a call about arg: nothing else runs on the page
\* until the box is dismissed
Alert(msg, arg) == alertMsg' = <<msg, arg>>
PageRuns == alertMsg = NoAlert

IdleReq == [op |-> "idle"]
Slots == 1..MaxInFlight
Busy == {k \in Slots : reqs[k].op # "idle"}
FreeSlot == CHOOSE k \in Slots \ Busy : \A j \in Slots \ Busy : k <= j

\* loadData has run to its end, through the try block or through catch
LoadEnded == loadPc \in {"done", "failed"}

\* The operator acts once loadData has finished.  A handler starts while
\* earlier ones still await the store; under the one-at-a-time discipline
\* only after every earlier handler has finished.
CanStart(oneAtATime) ==
  /\ PageRuns
  /\ LoadEnded
  /\ Busy # Slots
  /\ oneAtATime => Busy = {}

\* the run has room for one more operation
CanAct == issued.ops < MaxOperations
Acted == [issued EXCEPT !.ops = @ + 1]

Send(req) == reqs' = [reqs EXCEPT ![FreeSlot] = req]
Finish(k) == reqs' = [reqs EXCEPT ![k] = IdleReq]
Answer(k, err) == reqs' = [reqs EXCEPT ![k].pc = "answered", ![k].error = err]

\* ====================================================================
\* Initial state: the component has mounted, loadData has not run yet
\* ====================================================================
RenewIdle == [currentExpiry |-> 0, now |-> 0]

BillIdle ==
  [session |-> [entryTime |-> 0, vehicleType |-> "car", isFree |-> FALSE],
   exitTime |-> 0, grace |-> 0, rules |-> DefaultPricingRules]

Init ==
  /\ now = 0
  /\ userId \in {0, Me}
  /\ dbSessions = InitialDbSessions
  /\ dbPasses = InitialDbPasses
  /\ dbSettings = InitialDbSettings
  /\ sessions = <<>>
  /\ passes = <<>>
  /\ graceTimeMinutes = DefaultGraceTime
  /\ pricingRules = DefaultPricingRules
  /\ loading = TRUE
  /\ isFree = FALSE
  /\ loadPc = "start"
  /\ reqs = [k \in Slots |-> IdleReq]
  /\ alertMsg = NoAlert
  /\ issued = [session |-> 0, pass |-> 0, ops |-> 0, toggles |-> 0]
  /\ billIn = BillIdle
  /\ billOut = None
  /\ renewIn = RenewIdle
  /\ renewOut = None

\* ====================================================================
\* loadData and the settings effect
\* ====================================================================
\* syncSettings, run by the effect once loading is off, after a render that
\* changed graceTimeMinutes, pricingRules or loading: both keys are
\* upserted, or the store is unreachable (the result is not looked at)
SyncSettings(g, r) ==
  \/ dbSettings' = [grace_time |-> Some(g), pricing_rules |-> Some(r)]
  \/ UNCHANGED dbSettings

\* getUserId; without a user the load ends at once (finally: loading off)
LoadStart ==
  /\ PageRuns
  /\ loadPc = "start"
  /\ IF userId = 0
       THEN /\ loading' = FALSE /\ loadPc' = "done"
            /\ SyncSettings(graceTimeMinutes, pricingRules)
       ELSE /\ loading' = loading /\ loadPc' = "sessions"
            /\ UNCHANGED dbSettings
  /\ UNCHANGED <<now, userId, dbSessions, dbPasses, listVars, settingVars,
                 isFree, reqs, alertMsg, issued, billVars>>

\* a failed fetch: catch logs, finally turns loading off
LoadFail ==
  /\ PageRuns
  /\ loadPc \in {"sessions", "passes", "settings"}
  /\ loading' = FALSE
  /\ loadPc' = "failed"
  /\ SyncSettings(graceTimeMinutes, pricingRules)
  /\ UNCHANGED <<now, userId, dbSessions, dbPasses, listVars, settingVars,
                 isFree, reqs, alertMsg, issued, billVars>>

\* 1. fetch the sessions of the current user, newest first
LoadSessions ==
  /\ PageRuns
  /\ loadPc = "sessions"
  /\ sessions' = LET rows == SelectDesc(dbSessions, userId)
                 IN [i \in 1..Len(rows) |-> SessionOfRow(rows[i])]
  /\ loadPc' = "passes"
  /\ UNCHANGED <<now, userId, storeVars, passes, settingVars, loading, isFree,
                 reqs, alertMsg, issued, billVars>>

\* 2. fetch the passes of the current user, newest first
LoadPasses ==
  /\ PageRuns
  /\ loadPc = "passes"
  /\ passes' = LET rows == SelectDesc(dbPasses, userId)
               IN [i \in 1..Len(rows) |-> PassOfRow(rows[i])]
  /\ loadPc' = "settings"
  /\ UNCHANGED <<now, userId, storeVars, sessions, settingVars, loading,
                 isFree, reqs, alertMsg, issued, billVars>>

\* 3. fetch the settings; finally: loading off
LoadSettings ==
  /\ PageRuns
  /\ loadPc = "settings"
  /\ graceTimeMinutes' = IF dbSettings.grace_time # None
                           THEN dbSettings.grace_time[1]
                           ELSE graceTimeMinutes
  /\ pricingRules' = IF dbSettings.pricing_rules # None
                       THEN dbSettings.pricing_rules[1]
                       ELSE pricingRules
  /\ loading' = FALSE
  /\ loadPc' = "done"
  /\ SyncSettings(graceTimeMinutes', pricingRules')
  /\ UNCHANGED <<now, userId, dbSessions, dbPasses, listVars, isFree, reqs,
                 alertMsg, issued, billVars>>

\* ====================================================================
\* handleEntry
\* ====================================================================
\* the duplicate check looking at the newest session only
HasActive_newestOnly(list, v) ==
  /\ list # <<>>
  /\ list[1].vehicleNumber = v /\ list[1].status = "active"

\* sessions.find(s => s.vehicleNumber === vehicleNumber &&
\*                    s.status === "active")
HasActive(list, v) ==
  \E i \in 1..Len(list) :
    list[i].vehicleNumber = v /\ list[i].status = "active"

\* passes.find(p => p.vehicleNumber === vehicleNumber)
existingPassOf(list, v) ==
  LET Test(p) == p.vehicleNumber = v IN FindIndex(list, Test)

\* the session of a member vehicle exempt only when toggled
isFreeOf_toggleOnly(pi, toggle) == toggle

\* isFree: existingPass ? true : isFree
isFreeOf(pi, toggle) == IF pi # 0 THEN TRUE ELSE toggle

\* the synchronous part: the checks, then the insert is sent; no proof
\* image is uploaded to the form (proofImage || undefined is undefined)
\* the checks of handleEntry with the membership looked at before the
\* active sessions
entryRefusalOf_membershipFirst(uid, list, passList, v, t) ==
  LET pi == existingPassOf(passList, v)
  IN IF uid = 0 THEN AlertAuth
     ELSE IF pi # 0 /\ isBefore(passList[pi].expiryDate, t) THEN AlertExpired
     ELSE IF HasActive(list, v) THEN AlertDuplicate
     ELSE ""

\* the checks of handleEntry in their order: the alert of the first one
\* that refuses the admission, "" when none does
entryRefusalOf(uid, list, passList, v, t) ==
  LET pi == existingPassOf(passList, v)
  IN IF uid = 0 THEN AlertAuth
     ELSE IF HasActive(list, v) THEN AlertDuplicate
     ELSE IF pi # 0 /\ isBefore(passList[pi].expiryDate, t) THEN AlertExpired
     ELSE ""

HandleEntryStart(oneAtATime, v, t) ==
  /\ CanStart(oneAtATime)
  /\ LET pi == existingPassOf(passes, v)
         id == NewSessionId(issued.session + 1)
         refusal == entryRefusalOf(userId, sessions, passes, v, now)
     IN IF refusal # ""
          THEN /\ Alert(refusal, v)
               /\ UNCHANGED <<isFree, reqs, issued>>
        ELSE /\ CanAct
             /\ isFree' = IF pi # 0 THEN TRUE ELSE isFree
             /\ issued' = [Acted EXCEPT !.session = @ + 1]
             /\ Send([op |-> "entry", pc |-> "sent", error |-> FALSE,
                      uid |-> userId, snap |-> sessions,
                      item |-> [id |-> id, vehicleNumber |-> v,
                                vehicleType |-> t, entryTime |-> now,
                                exitTime |-> None, amount |-> None,
                                durationMinutes |-> None,
                                isFree |-> isFreeOf(pi, isFree),
                                proofImage |-> None,
                                status |-> "active"]])
             /\ UNCHANGED alertMsg
  /\ UNCHANGED <<now, userId, storeVars, listVars, settingVars, loading,
                 loadPc, billVars>>

\* the store answers the insert: an error (unreachable, or the id is
\* already a row's key), or the row is added
StoreInsertSession(k) ==
  /\ reqs[k].op = "entry" /\ reqs[k].pc = "sent"
  /\ \/ /\ Answer(k, TRUE)
        /\ UNCHANGED dbSessions
     \/ /\ \A i \in 1..Len(dbSessions) : dbSessions[i].id # reqs[k].item.id
        /\ dbSessions' = Append(dbSessions,
                                RowOfSession(reqs[k].item, reqs[k].uid))
        /\ Answer(k, FALSE)
  /\ UNCHANGED <<now, userId, dbPasses, dbSettings, listVars, settingVars,
                 loading, isFree, loadPc, alertMsg, issued, billVars>>

\* after the await: the error alert, or the list is replaced and the form
\* reset
HandleEntryResume(k) ==
  /\ PageRuns
  /\ reqs[k].op = "entry" /\ reqs[k].pc = "answered"
  /\ IF reqs[k].error
       THEN /\ Alert(AlertEntryFailed, reqs[k].item.vehicleNumber)
            /\ UNCHANGED <<sessions, isFree>>
       ELSE /\ sessions' = <<reqs[k].item>> \o reqs[k].snap
            /\ isFree' = FALSE
            /\ UNCHANGED alertMsg
  /\ Finish(k)
  /\ UNCHANGED <<now, userId, storeVars, passes, settingVars, loading,
                 loadPc, issued, billVars>>

\* ====================================================================
\* handleExit
\* ====================================================================
\* sessions.find(s => s.id === idToExit || s.vehicleNumber === idToExit)
sessionToExit(list, idToExit) ==
  LET Test(x) == x.id = idToExit \/ x.vehicleNumber = idToExit
  IN FindIndex(list, Test)

\* !session || session.status === "completed"
noActiveSession_missingOnly(list, si) == si = 0

noActiveSession(list, si) == si = 0 \/ (si # 0 /\ list[si].status = "completed")

\* a settlement that also drops the proof and the exemption
Settled_dropsProof(x, f) ==
  [x EXCEPT !.exitTime = Some(f.exitTime), !.amount = Some(f.amount),
            !.durationMinutes = Some(f.durationMinutes),
            !.status = "completed", !.proofImage = None, !.isFree = FALSE]

\* the fields a settlement writes
Settled(x, f) ==
  [x EXCEPT !.exitTime = Some(f.exitTime), !.amount = Some(f.amount),
            !.durationMinutes = Some(f.durationMinutes),
            !.status = "completed"]

\* handleExit(idToExit) takes a vehicle number (the exit form, a
\* suggestion, a scanned token) or a session id
ExitInputs == Vehicles \cup {sessions[i].id : i \in 1..Len(sessions)}

\* every other session put back to active
updatedSessionsOf_othersActive(list, f) ==
  [i \in 1..Len(list) |->
     IF list[i].id = f.id THEN Settled(list[i], f)
     ELSE [list[i] EXCEPT !.status = "active"]]

\* sessions.map(s => s.id === session.id ? { ...s, exitTime, amount,
\*                     durationMinutes, status: "completed" } : s)
updatedSessionsOf(list, f) ==
  [i \in 1..Len(list) |->
     IF list[i].id = f.id THEN Settled(list[i], f) ELSE list[i]]

\* the session billed as exempt when its vehicle holds a pass that has not
\* run out at the exit
billedSessionOf_membershipAtExit(list, si, passList, t) ==
  [list[si] EXCEPT
     !.isFree = \E i \in 1..Len(passList) :
                  /\ passList[i].vehicleNumber = list[si].vehicleNumber
                  /\ ~isBefore(passList[i].expiryDate, t)]

\* calculateBill(session, exitTime): the session as found in the list, the
\* passes are not looked at
billedSessionOf(list, si, passList, t) == list[si]

HandleExitStart(oneAtATime, idToExit) ==
  /\ CanStart(oneAtATime)
  /\ LET si == sessionToExit(sessions, idToExit)
     IN IF noActiveSession(sessions, si)
          THEN /\ Alert(AlertNotFound, idToExit)
               /\ UNCHANGED <<reqs, issued>>
        ELSE IF userId = 0
          THEN /\ Alert(AlertAuth, idToExit)
               /\ UNCHANGED <<reqs, issued>>
        ELSE LET bill == calculateBill(billedSessionOf(sessions, si, passes,
                                                       now),
                                       now, graceTimeMinutes, pricingRules)
             IN /\ CanAct
                /\ issued' = Acted
                /\ Send([op |-> "exit", pc |-> "sent", error |-> FALSE,
                         uid |-> userId, snap |-> sessions,
                         item |-> [id |-> sessions[si].id,
                                   exitTime |-> now,
                                   amount |-> bill.amount,
                                   durationMinutes |-> bill.durationMinutes]])
                /\ UNCHANGED alertMsg
  /\ UNCHANGED <<now, userId, storeVars, listVars, settingVars, loading,
                 isFree, loadPc, billVars>>

\* .update({...}).eq("id", session.id).eq("user_id", userId)
StoreUpdateSession(k) ==
  /\ reqs[k].op = "exit" /\ reqs[k].pc = "sent"
  /\ \/ /\ Answer(k, TRUE)
        /\ UNCHANGED dbSessions
     \/ /\ dbSessions' =
             [i \in 1..Len(dbSessions) |->
                IF /\ dbSessions[i].id = reqs[k].item.id
                   /\ ownedBy(dbSessions[i], reqs[k].uid)
                  THEN Settled(dbSessions[i], reqs[k].item)
                  ELSE dbSessions[i]]
        /\ Answer(k, FALSE)
  /\ UNCHANGED <<now, userId, dbPasses, dbSettings, listVars, settingVars,
                 loading, isFree, loadPc, alertMsg, issued, billVars>>

\* the list updated whatever the store answered
HandleExitResume_ignoresError(k) ==
  /\ PageRuns
  /\ reqs[k].op = "exit" /\ reqs[k].pc = "answered"
  /\ sessions' = updatedSessionsOf(reqs[k].snap, reqs[k].item)
  /\ UNCHANGED alertMsg
  /\ Finish(k)
  /\ UNCHANGED <<now, userId, storeVars, passes, settingVars, loading,
                 isFree, loadPc, issued, billVars>>

\* after the await: the error alert, or the list is replaced and the bill
\* shown
HandleExitResume(k) ==
  /\ PageRuns
  /\ reqs[k].op = "exit" /\ reqs[k].pc = "answered"
  /\ IF reqs[k].error
       THEN /\ Alert(AlertExitFailed, reqs[k].item.id)
            /\ UNCHANGED sessions
       ELSE /\ sessions' = updatedSessionsOf(reqs[k].snap, reqs[k].item)
            /\ UNCHANGED alertMsg
  /\ Finish(k)
  /\ UNCHANGED <<now, userId, storeVars, passes, settingVars, loading,
                 isFree, loadPc, issued, billVars>>

\* ====================================================================
\* createMembership
\* ====================================================================
CreateMembershipStart(oneAtATime, v, t) ==
  /\ CanStart(oneAtATime)
  /\ IF userId = 0
       THEN /\ Alert(AlertAuth, v)
            /\ UNCHANGED <<reqs, issued>>
       ELSE /\ CanAct
            /\ issued' = [Acted EXCEPT !.pass = @ + 1]
            /\ Send([op |-> "create", pc |-> "sent", error |-> FALSE,
                     uid |-> userId, snap |-> passes,
                     item |-> [id |-> NewPassId(issued.pass + 1),
                               vehicleNumber |-> v, vehicleType |-> t,
                               holderName |-> "holder",
                               expiryDate |-> addMonths(now, 1)]])
            /\ UNCHANGED alertMsg
  /\ UNCHANGED <<now, userId, storeVars, listVars, settingVars, loading,
                 isFree, loadPc, billVars>>

StoreInsertPass(k) ==
  /\ reqs[k].op = "create" /\ reqs[k].pc = "sent"
  /\ \/ /\ Answer(k, TRUE)
        /\ UNCHANGED dbPasses
     \/ /\ \A i \in 1..Len(dbPasses) : dbPasses[i].id # reqs[k].item.id
        /\ dbPasses' = Append(dbPasses, RowOfPass(reqs[k].item, reqs[k].uid))
        /\ Answer(k, FALSE)
  /\ UNCHANGED <<now, userId, dbSessions, dbSettings, listVars, settingVars,
                 loading, isFree, loadPc, alertMsg, issued, billVars>>

CreateMembershipResume(k) ==
  /\ PageRuns
  /\ reqs[k].op = "create" /\ reqs[k].pc = "answered"
  /\ IF reqs[k].error
       THEN /\ Alert(AlertPassFailed, reqs[k].item.vehicleNumber)
            /\ UNCHANGED passes
       ELSE /\ passes' = <<reqs[k].item>> \o reqs[k].snap
            /\ Alert(AlertPassCreated, reqs[k].item.vehicleNumber)
  /\ Finish(k)
  /\ UNCHANGED <<now, userId, storeVars, sessions, settingVars, loading,
                 isFree, loadPc, issued, billVars>>

\* ====================================================================
\* rechargePass
\* ====================================================================
\* passes.find(p => p.id === passId)
passToRecharge(list, passId) ==
  LET Test(p) == p.id = passId IN FindIndex(list, Test)

\* a renewal that always starts from now
newExpiryOf_fromNow(currentExpiry, t) == addMonths(t, 1)

\* addMonths(isAfter(currentExpiry, now) ? currentExpiry : now, 1)
newExpiryOf(currentExpiry, t) ==
  addMonths(IF isAfter(currentExpiry, t) THEN currentExpiry ELSE t, 1)

RechargePassStart(oneAtATime, passId) ==
  /\ CanStart(oneAtATime)
  /\ LET pi == passToRecharge(passes, passId)
     IN IF pi = 0
          THEN UNCHANGED <<reqs, issued, alertMsg>>
        ELSE IF userId = 0
          THEN /\ Alert(AlertAuth, passId)
               /\ UNCHANGED <<reqs, issued>>
        ELSE /\ CanAct
             /\ issued' = Acted
             /\ Send([op |-> "recharge", pc |-> "sent", error |-> FALSE,
                      uid |-> userId, snap |-> passes,
                      item |-> [id |-> passId,
                                expiryDate |->
                                  newExpiryOf(passes[pi].expiryDate, now)]])
             /\ UNCHANGED alertMsg
  /\ UNCHANGED <<now, userId, storeVars, listVars, settingVars, loading,
                 isFree, loadPc, billVars>>

\* .update({ expiry_date: newExpiry }).eq("id", passId).eq("user_id", userId)
StoreUpdatePass(k) ==
  /\ reqs[k].op = "recharge" /\ reqs[k].pc = "sent"
  /\ \/ /\ Answer(k, TRUE)
        /\ UNCHANGED dbPasses
     \/ /\ dbPasses' =
             [i \in 1..Len(dbPasses) |->
                IF /\ dbPasses[i].id = reqs[k].item.id
                   /\ ownedBy(dbPasses[i], reqs[k].uid)
                  THEN [dbPasses[i] EXCEPT
                          !.expiryDate = reqs[k].item.expiryDate]
                  ELSE dbPasses[i]]
        /\ Answer(k, FALSE)
  /\ UNCHANGED <<now, userId, dbSessions, dbSettings, listVars, settingVars,
                 loading, isFree, loadPc, alertMsg, issued, billVars>>

RechargePassResume(k) ==
  /\ PageRuns
  /\ reqs[k].op = "recharge" /\ reqs[k].pc = "answered"
  /\ IF reqs[k].error
       THEN /\ Alert(AlertRechargeFailed, reqs[k].item.id)
            /\ UNCHANGED passes
       ELSE /\ passes' =
                 [i \in 1..Len(reqs[k].snap) |->
                    IF reqs[k].snap[i].id = reqs[k].item.id
                      THEN [reqs[k].snap[i] EXCEPT
                              !.expiryDate = reqs[k].item.expiryDate]
                      ELSE reqs[k].snap[i]]
            /\ Alert(AlertRecharged, reqs[k].item.id)
  /\ Finish(k)
  /\ UNCHANGED <<now, userId, storeVars, sessions, settingVars, loading,
                 isFree, loadPc, issued, billVars>>

\* ====================================================================
\* the purge button ("Format Matrix"), confirmed
\* ====================================================================
PurgeStart(oneAtATime) ==
  /\ CanStart(oneAtATime)
  /\ IF userId = 0
       THEN /\ Alert(AlertAuth, "purge")
            /\ UNCHANGED <<reqs, issued>>
       ELSE /\ CanAct
            /\ issued' = Acted
            /\ Send([op |-> "purge", pc |-> "sent", error |-> FALSE,
                     uid |-> userId])
            /\ UNCHANGED alertMsg
  /\ UNCHANGED <<now, userId, storeVars, listVars, settingVars, loading,
                 isFree, loadPc, billVars>>

\* .delete().eq("user_id", userId)
StoreDeleteSessions(k) ==
  /\ reqs[k].op = "purge" /\ reqs[k].pc = "sent"
  /\ \/ /\ Answer(k, TRUE)
        /\ UNCHANGED dbSessions
     \/ /\ dbSessions' = LET Keep(row) == ~ownedBy(row, reqs[k].uid)
                         IN SelectSeq(dbSessions, Keep)
        /\ Answer(k, FALSE)
  /\ UNCHANGED <<now, userId, dbPasses, dbSettings, listVars, settingVars,
                 loading, isFree, loadPc, alertMsg, issued, billVars>>

PurgeResume(k) ==
  /\ PageRuns
  /\ reqs[k].op = "purge" /\ reqs[k].pc = "answered"
  /\ IF reqs[k].error
       THEN /\ Alert(AlertPurgeFailed, "purge")
            /\ UNCHANGED sessions
       ELSE /\ sessions' = <<>>
            /\ Alert(AlertPurged, "purge")
  /\ Finish(k)
  /\ UNCHANGED <<now, userId, storeVars, passes, settingVars, loading,
                 isFree, loadPc, issued, billVars>>

\* ====================================================================
\* the entry form's exemption toggle and the settings panel
\* ====================================================================
ToggleFree ==
  /\ PageRuns /\ LoadEnded
  /\ CanAct
  /\ issued' = [Acted EXCEPT !.toggles = @ + 1]
  /\ isFree' = ~isFree
  /\ UNCHANGED <<now, userId, storeVars, listVars, settingVars, loading,
                 loadPc, reqs, alertMsg, billVars>>

\* a settings edit: an operation of the run that sets the settings to g
\* and r; when the render sees a changed value (a number that differs, or
\* a new rules object) it runs the settings effect
SettingsEdit(g, r, changed) ==
  /\ PageRuns /\ LoadEnded
  /\ CanAct
  /\ issued' = Acted
  /\ graceTimeMinutes' = g
  /\ pricingRules' = r
  /\ IF loading \/ ~changed
       THEN UNCHANGED dbSettings
       ELSE SyncSettings(g, r)
  /\ UNCHANGED <<now, userId, dbSessions, dbPasses, listVars, loading, isFree,
                 loadPc, reqs, alertMsg, billVars>>

\* the "Free buffer limit" range input
SetGraceTime(g) ==
  SettingsEdit(g, pricingRules, g # graceTimeMinutes)

\* newRules[settingsVehicleType][index].hours = Number(e.target.value)
EditRuleHours(t, i, h) ==
  /\ i \in 1..Len(pricingRules[t])
  /\ SettingsEdit(graceTimeMinutes,
                  [pricingRules EXCEPT ![t][i].hours = h], TRUE)

\* newRules[settingsVehicleType][index].amount = Number(e.target.value)
EditRuleAmount(t, i, a) ==
  /\ i \in 1..Len(pricingRules[t])
  /\ SettingsEdit(graceTimeMinutes,
                  [pricingRules EXCEPT ![t][i].amount = a], TRUE)

\* newRules[settingsVehicleType].filter((_, i) => i !== index)
DeleteRule(t, i) ==
  /\ i \in 1..Len(pricingRules[t])
  /\ SettingsEdit(graceTimeMinutes,
                  [pricingRules EXCEPT
                     ![t] = SubSeq(@, 1, i - 1) \o SubSeq(@, i + 1, Len(@))],
                  TRUE)

\* [...newRules[settingsVehicleType], { hours: 0, amount: 0 }]
AddRule(t) ==
  SettingsEdit(graceTimeMinutes,
               [pricingRules EXCEPT ![t] = Append(@, Tier(0, 0))], TRUE)

\* ====================================================================
\* the operator and the clock
\* ====================================================================
\* the operator closes the alert box
DismissAlert ==
  /\ alertMsg # NoAlert
  /\ alertMsg' = NoAlert
  /\ UNCHANGED <<now, userId, storeVars, listVars, settingVars, loading,
                 isFree, loadPc, reqs, issued, billVars>>

Tick(d) ==
  /\ now + d \in 0..MaxTime
  /\ now' = now + d
  /\ UNCHANGED <<userId, storeVars, listVars, settingVars, loading, isFree,
                 loadPc, reqs, alertMsg, issued, billVars>>

\* ---------------------------------------- inputs of the pricing engine
\* every position of the "Free buffer limit" range input
GraceValues == {g \in 0..GraceSliderMax : g % GraceSliderStep = 0}

\* tiers the pricing rules editor can produce: the built-in car table,
\* a freshly added rule {0, 0} and a one-hour rule edited to amount 0
TierUniverse ==
  {Tier(1, 50), Tier(12, 500), Tier(24, 900), Tier(0, 0), Tier(1, 0)}

RECURSIVE SeqsUpTo(_, _)
SeqsUpTo(S, n) ==
  IF n = 0 THEN {<<>>}
  ELSE LET shorter == SeqsUpTo(S, n - 1)
       IN shorter \cup {Append(s, x) : s \in shorter, x \in S}

RuleTables == SeqsUpTo(TierUniverse, MaxTiers)

\* elapsed whole minutes around every grace value and every tier
\* threshold, and the last full hour before the 12-hour tier
ElapsedMarks ==
  {-2} \cup {g + d : g \in GraceValues, d \in {-1, 0, 1}}
       \cup {h * 60 + d : h \in {1, 2, 12, 24}, d \in {-1, 0, 1}}
       \cup {90, 11 * 60}

BillEntryBase == 2 * UnitsPerMinute
BillEntryTimes == {BillEntryBase, BillEntryBase + 1}
BillExitTimes == {BillEntryBase + m * UnitsPerMinute : m \in ElapsedMarks}
BillVehicleTypes == {"car"}

\* the pricing rules with the table of one category replaced
RulesWith(t, tbl) == [DefaultPricingRules EXCEPT ![t] = tbl]

BillInit ==
  /\ \E t \in BillVehicleTypes, tbl \in RuleTables :
       billIn \in [session : [entryTime : BillEntryTimes,
                              vehicleType : {t},
                              isFree : BOOLEAN],
                   exitTime : BillExitTimes,
                   grace : GraceValues,
                   rules : {RulesWith(t, tbl)}]
  /\ billOut = None
  /\ now = 0
  /\ userId = Me
  /\ dbSessions = <<>>
  /\ dbPasses = <<>>
  /\ dbSettings = [grace_time |-> None, pricing_rules |-> None]
  /\ sessions = <<>>
  /\ passes = <<>>
  /\ graceTimeMinutes = DefaultGraceTime
  /\ pricingRules = DefaultPricingRules
  /\ loading = TRUE
  /\ isFree = FALSE
  /\ loadPc = "start"
  /\ reqs = [k \in Slots |-> IdleReq]
  /\ alertMsg = NoAlert
  /\ issued = [session |-> 0, pass |-> 0, ops |-> 0, toggles |-> 0]
  /\ renewIn = RenewIdle
  /\ renewOut = None

BillCalc ==
  /\ billOut = None
  /\ billOut' = Some(calculateBill(billIn.session, billIn.exitTime,
                                   billIn.grace, billIn.rules))
  /\ UNCHANGED <<billIn, renewIn, renewOut, now, userId, storeVars, listVars,
                 settingVars, loading, isFree, loadPc, reqs, alertMsg,
                 issued>>

BillNext == BillCalc

BillSpec == BillInit /\ [][BillNext]_vars

\* ------------------------------------- inputs of the renewal date
\* instants of the first MaxRenewDays days, at midnight and 45 minutes
\* past: they span the ends of January, February and March
RenewInstants ==
  {d * DayUnits + u : d \in 0..MaxRenewDays, u \in {0, HalfStay}}

RenewInit ==
  /\ renewIn \in [currentExpiry : RenewInstants, now : RenewInstants]
  /\ renewOut = None
  /\ billIn = BillIdle
  /\ billOut = None
  /\ now = 0
  /\ userId = Me
  /\ dbSessions = <<>>
  /\ dbPasses = <<>>
  /\ dbSettings = [grace_time |-> None, pricing_rules |-> None]
  /\ sessions = <<>>
  /\ passes = <<>>
  /\ graceTimeMinutes = DefaultGraceTime
  /\ pricingRules = DefaultPricingRules
  /\ loading = TRUE
  /\ isFree = FALSE
  /\ loadPc = "start"
  /\ reqs = [k \in Slots |-> IdleReq]
  /\ alertMsg = NoAlert
  /\ issued = [session |-> 0, pass |-> 0, ops |-> 0, toggles |-> 0]

RenewCalc ==
  /\ renewOut = None
  /\ renewOut' = Some(newExpiryOf(renewIn.currentExpiry, renewIn.now))
  /\ UNCHANGED <<renewIn, billIn, billOut, now, userId, storeVars, listVars,
                 settingVars, loading, isFree, loadPc, reqs, alertMsg,
                 issued>>

RenewNext == RenewCalc

RenewSpec == RenewInit /\ [][RenewNext]_vars

\* ====================================================================
\* Specifications
\* ====================================================================
Steps(oneAtATime, jumps) ==
  \/ LoadStart
  \/ LoadFail
  \/ LoadSessions
  \/ LoadPasses
  \/ LoadSettings
  \/ \E v \in Vehicles, t \in EntryVehicleTypes :
       HandleEntryStart(oneAtATime, v, t)
  \/ \E k \in Slots : StoreInsertSession(k)
  \/ \E k \in Slots : HandleEntryResume(k)
  \/ \E x \in ExitInputs : HandleExitStart(oneAtATime, x)
  \/ \E k \in Slots : StoreUpdateSession(k)
  \/ \E k \in Slots : HandleExitResume(k)
  \/ \E v \in Vehicles, t \in EntryVehicleTypes :
       CreateMembershipStart(oneAtATime, v, t)
  \/ \E k \in Slots : StoreInsertPass(k)
  \/ \E k \in Slots : CreateMembershipResume(k)
  \/ \E i \in 1..Len(passes) : RechargePassStart(oneAtATime, passes[i].id)
  \/ \E k \in Slots : StoreUpdatePass(k)
  \/ \E k \in Slots : RechargePassResume(k)
  \/ PurgeStart(oneAtATime)
  \/ \E k \in Slots : StoreDeleteSessions(k)
  \/ \E k \in Slots : PurgeResume(k)
  \/ ToggleFree
  \/ \E g \in GraceInputs : SetGraceTime(g)
  \/ \E t \in EntryVehicleTypes, h \in HourInputs :
       \E i \in 1..Len(pricingRules[t]) : EditRuleHours(t, i, h)
  \/ \E t \in EntryVehicleTypes, a \in AmountInputs :
       \E i \in 1..Len(pricingRules[t]) : EditRuleAmount(t, i, a)
  \/ \E t \in EntryVehicleTypes :
       \E i \in 1..Len(pricingRules[t]) : DeleteRule(t, i)
  \/ \E t \in EntryVehicleTypes : AddRule(t)
  \/ DismissAlert
  \/ \E d \in jumps : Tick(d)

\* the browser: handlers start while others await the store
Next == Steps(FALSE, ClockJumps)
Spec == Init /\ [][Next]_vars

\* requests run one at a time, each to completion, after loadData; the
\* clock is read at every half stay
SeqNext == Steps(TRUE, HalfJumps)
SeqSpec == Init /\ [][SeqNext]_vars

\* admissions and settlements in the browser, with what the run time
\* guarantees: the store answers every call it was sent, and a handler
\* whose call was answered resumes once the page runs (no alert box is
\* up).  When the operator closes an alert box is up to the operator.
FlowNext ==
  \/ LoadStart
  \/ LoadFail
  \/ LoadSessions
  \/ LoadPasses
  \/ LoadSettings
  \/ \E v \in Vehicles, t \in EntryVehicleTypes :
       HandleEntryStart(FALSE, v, t)
  \/ \E k \in Slots : StoreInsertSession(k)
  \/ \E k \in Slots : HandleEntryResume(k)
  \/ \E x \in ExitInputs : HandleExitStart(FALSE, x)
  \/ \E k \in Slots : StoreUpdateSession(k)
  \/ \E k \in Slots : HandleExitResume(k)
  \/ DismissAlert
  \/ \E d \in ClockJumps : Tick(d)

FlowFairness ==
  \A k \in Slots :
    /\ WF_vars(StoreInsertSession(k))
    /\ WF_vars(StoreUpdateSession(k))
    /\ SF_vars(HandleEntryResume(k))
    /\ SF_vars(HandleExitResume(k))

FlowSpec == Init /\ [][FlowNext]_vars /\ FlowFairness

\* the same with an operator who closes every alert box
AttendedSpec == FlowSpec /\ WF_vars(DismissAlert)

\* ====================================================================
\* Properties of the session lifecycle
\* ====================================================================
Tenants == {Me, Other}

\* positions of the active sessions of vehicle v in a session list
ActiveIn(list, v) ==
  {i \in 1..Len(list) :
     list[i].vehicleNumber = v /\ list[i].status = "active"}

\* positions of the active rows of tenant uid and vehicle v in the store
ActiveRows(rows, uid, v) ==
  {i \in 1..Len(rows) :
     /\ rows[i].user_id = uid
     /\ rows[i].vehicleNumber = v
     /\ rows[i].status = "active"}

\* the new value of a list holds, for the entry of this id, the same
\* settlement fields
KeepsSettlement(x, list2) ==
  \A j \in 1..Len(list2) :
    list2[j].id = x.id =>
      /\ list2[j].exitTime = x.exitTime
      /\ list2[j].amount = x.amount
      /\ list2[j].durationMinutes = x.durationMinutes

\* the new value of a list holds the entry of this id as completed
StaysCompleted(x, list2) ==
  \A j \in 1..Len(list2) : list2[j].id = x.id => list2[j].status = "completed"

\* x names a completed session: by its id, or by the number of a vehicle
\* that has a completed session and no active one
AddressesCompleted(x) ==
  \/ \E i \in 1..Len(sessions) :
       sessions[i].id = x /\ sessions[i].status = "completed"
  \/ /\ \E i \in 1..Len(sessions) :
          sessions[i].vehicleNumber = x /\ sessions[i].status = "completed"
     /\ ActiveIn(sessions, x) = {}

\* no pass of vehicle v has run out
NoExpiredPass(v) ==
  \A i \in 1..Len(passes) :
    passes[i].vehicleNumber = v => passes[i].expiryDate >= now

\* C1: with requests run one at a time, once loadData has finished every
\* state has at most one active session per vehicle number and tenant, in
\* the in-memory session list and in the durable store.  (SeqSpec)
C1_OneActivePerVehicle ==
  LoadEnded =>
    \A v \in Vehicles :
      /\ Cardinality(ActiveIn(sessions, v)) <= 1
      /\ \A uid \in Tenants : Cardinality(ActiveRows(dbSessions, uid, v)) <= 1

\* C2: two admission requests for one vehicle number that overlap in time
\* do not both succeed.  (Spec)
C2_OverlappingEntriesNotBothAdmitted ==
  \A a, b \in Slots :
    ( /\ a # b
      /\ reqs[a].op = "entry" /\ reqs[b].op = "entry"
      /\ reqs[a].item.vehicleNumber = reqs[b].item.vehicleNumber
      /\ reqs[a].pc = "answered" /\ reqs[b].pc = "answered" )
    => (reqs[a].error \/ reqs[b].error)

\* C3: of two settlement requests for one active session that overlap in
\* time, only one performs the transition; the other is answered with a
\* failure and its exitTime, amount and durationMinutes are not written.
\* (Spec)
C3_OverlappingExitsOneWins ==
  \A a, b \in Slots :
    ( /\ a # b
      /\ reqs[a].op = "exit" /\ reqs[b].op = "exit"
      /\ reqs[a].item.id = reqs[b].item.id
      /\ reqs[a].pc = "answered" /\ reqs[b].pc = "answered" )
    => (reqs[a].error \/ reqs[b].error)

\* C4: run one at a time, a settlement that addresses a completed session
\* (by its id, or by its vehicle number when the vehicle has no active
\* session) raises "Active session not found" and sends nothing, and no step
\* changes the exitTime, amount or durationMinutes of a completed session,
\* in the list or in the store.  (SeqSpec)
C4_SettledIsFinal ==
  [][ /\ \A i \in 1..Len(sessions) :
           sessions[i].status = "completed" =>
             KeepsSettlement(sessions[i], sessions')
      /\ \A i \in 1..Len(dbSessions) :
           dbSessions[i].status = "completed" =>
             KeepsSettlement(dbSessions[i], dbSessions')
      /\ \A x \in ExitInputs :
           (HandleExitStart(TRUE, x) /\ AddressesCompleted(x)) =>
             /\ alertMsg' = <<AlertNotFound, x>>
             /\ UNCHANGED <<reqs, sessions, dbSessions>>
    ]_vars

\* C4 witness: the settlement of a completed session, addressed by the
\* number of its vehicle, which has no active session, has just been
\* refused; the session is completed in the list and in the store
C4_Witness ==
  \E i \in 1..Len(sessions) :
    /\ sessions[i].status = "completed"
    /\ ActiveIn(sessions, sessions[i].vehicleNumber) = {}
    /\ alertMsg = <<AlertNotFound, sessions[i].vehicleNumber>>
    /\ \E j \in 1..Len(dbSessions) :
         /\ dbSessions[j].id = sessions[i].id
         /\ dbSessions[j].status = "completed"
         /\ dbSessions[j].exitTime = sessions[i].exitTime
         /\ dbSessions[j].amount = sessions[i].amount

\* C5: an admission for vehicle X while X has an active session raises the
\* duplicate alert and creates nothing; when X has no active session (its
\* session has been settled) and no expired pass, the admission of a signed
\* in operator is sent to the store, and once the store has accepted it the
\* new session is active in the list and in the store.  (SeqSpec)
C5_DuplicateRejectedThenReadmitted ==
  [][ \A v \in Vehicles :
        /\ ( /\ \E t \in EntryVehicleTypes : HandleEntryStart(TRUE, v, t)
             /\ ActiveIn(sessions, v) # {} )
           => /\ alertMsg' = <<AlertDuplicate, v>>
              /\ UNCHANGED <<reqs, sessions, dbSessions>>
        /\ ( /\ \E t \in EntryVehicleTypes : HandleEntryStart(TRUE, v, t)
             /\ userId # 0
             /\ ActiveIn(sessions, v) = {}
             /\ NoExpiredPass(v) )
           => /\ alertMsg' = NoAlert
              /\ \E k \in Slots :
                   /\ reqs'[k].op = "entry"
                   /\ reqs'[k].item.vehicleNumber = v
                   /\ reqs'[k].item.status = "active"
        /\ \A k \in Slots :
             ( /\ HandleEntryResume(k)
               /\ reqs[k].item.vehicleNumber = v
               /\ ~reqs[k].error )
             => /\ \E i \in ActiveIn(sessions', v) :
                     sessions'[i].id = reqs[k].item.id
                /\ \E j \in ActiveRows(dbSessions', userId, v) :
                     dbSessions'[j].id = reqs[k].item.id
    ]_vars

\* C5 witness: a vehicle whose session was settled has been admitted again,
\* and a further admission for it has just been refused as a duplicate
C5_Witness ==
  \E v \in Vehicles :
    /\ alertMsg = <<AlertDuplicate, v>>
    /\ \E i, j \in 1..Len(sessions) :
         /\ i < j
         /\ sessions[i].vehicleNumber = v /\ sessions[i].status = "active"
         /\ sessions[j].vehicleNumber = v /\ sessions[j].status = "completed"

\* C6: with requests run one after another, no step takes a completed
\* session back to active, in the list or in the store.  (SeqSpec)
C6_NoReopening ==
  [][ /\ \A i \in 1..Len(sessions) :
           sessions[i].status = "completed" =>
             StaysCompleted(sessions[i], sessions')
      /\ \A i \in 1..Len(dbSessions) :
           dbSessions[i].status = "completed" =>
             StaysCompleted(dbSessions[i], dbSessions')
    ]_vars

\* C6 witness: a session settled earlier is still completed, in the list
\* and in the store, after a later session was admitted and settled
C6_Witness ==
  \E i, j \in 1..Len(sessions) :
    /\ i < j
    /\ sessions[i].status = "completed" /\ sessions[j].status = "completed"
    /\ \E r \in 1..Len(dbSessions) :
         dbSessions[r].id = sessions[j].id /\ dbSessions[r].status = "completed"

\* ====================================================================
\* Properties of the pricing engine, checked under BillSpec
\* ====================================================================
billed == billOut # None
bSession == billIn.session
bTable == billIn.rules[bSession.vehicleType]
bAmount == billOut[1].amount
bMinutes == billOut[1].durationMinutes

\* d is the whole number of minutes between entry and exit: the elapsed
\* time lies in [d, d+1) minutes (mirrored for an exit before the entry)
IsElapsedMinutes(d, entryTime, exitTime) ==
  IF exitTime >= entryTime
    THEN /\ d >= 0
         /\ d * UnitsPerMinute <= exitTime - entryTime
         /\ exitTime - entryTime < (d + 1) * UnitsPerMinute
    ELSE /\ d <= 0
         /\ (-d) * UnitsPerMinute <= entryTime - exitTime
         /\ entryTime - exitTime < (1 - d) * UnitsPerMinute

\* h is the number of started hours in m minutes: ceil(m / 60)
IsBilledHours(h, m) == (h - 1) * 60 < m /\ m <= h * 60

\* the started hours of the computed bill
bHours == CHOOSE h \in -1..(bMinutes \div 60 + 1) : IsBilledHours(h, bMinutes)

\* indices of the tiers whose threshold is reached
Qualifying(tbl, h) == {i \in 1..Len(tbl) : tbl[i].hours <= h}

\* indices of the qualifying tiers of largest threshold
LargestQualifying(tbl, h) ==
  {i \in Qualifying(tbl, h) :
     \A j \in Qualifying(tbl, h) : tbl[j].hours <= tbl[i].hours}

\* every reordering of a rule table
Reorderings(tbl) ==
  {[i \in 1..Len(tbl) |-> tbl[p[i]]] : p \in Permutations(1..Len(tbl))}

pastGrace == billed /\ ~bSession.isFree /\ bMinutes > billIn.grace

\* C7: whenever the elapsed whole minutes between entry and exit are at
\* most gracePeriodMinutes, the amount is 0, exempt or not, for every
\* category and tariff table; the threshold itself is still free.
C7_GraceIsFree ==
  billed =>
    \A d \in -2..billIn.grace :
      IsElapsedMinutes(d, bSession.entryTime, billIn.exitTime) => bAmount = 0

\* C7 witness: a non-exempt bill exactly at a positive grace threshold,
\* with a table that would otherwise charge
C7_Witness ==
  /\ billed /\ ~bSession.isFree
  /\ billIn.grace > 0
  /\ IsElapsedMinutes(billIn.grace, bSession.entryTime, billIn.exitTime)
  /\ bTable = <<Tier(0, 0), Tier(1, 50)>>
  /\ bAmount = 0

\* C8: an exempt session is billed 0 whatever the elapsed time, category,
\* grace period and table, and the minutes reported are the real elapsed
\* whole minutes.
C8_ExemptIsFree ==
  (billed /\ bSession.isFree) =>
    /\ bAmount = 0
    /\ IsElapsedMinutes(bMinutes, bSession.entryTime, billIn.exitTime)

\* C8 witness: an exempt session a day past the grace period, reported
\* with its full duration
C8_Witness ==
  /\ billed /\ bSession.isFree
  /\ bMinutes = 24 * 60 /\ bMinutes > billIn.grace
  /\ bTable = <<Tier(1, 50), Tier(12, 500), Tier(24, 900)>>
  /\ bAmount = 0

\* C9 as stated: past the grace period the amount is that of the tier with
\* the largest reached threshold, whatever the order the tiers are stored
\* in.
C9_LargestTierAnyOrder ==
  (pastGrace /\ Qualifying(bTable, bHours) # {}) =>
    /\ \A i \in LargestQualifying(bTable, bHours) : bAmount = bTable[i].amount
    /\ \A tbl \in Reorderings(bTable) :
         calculateBill(bSession, billIn.exitTime, billIn.grace,
                       RulesWith(bSession.vehicleType, tbl)).amount = bAmount

\* C9 amended: past the grace period, with billedHours = ceil(minutes / 60),
\* the amount is that of the first stored tier among the reached tiers of
\* largest threshold; it does not depend on the stored order when those
\* tiers carry one amount (as they do when thresholds are distinct), and
\* the built-in car table gives 50 at 90 minutes and 500 at 720 minutes.
C9_LargestTierFirstStored ==
  (pastGrace /\ Qualifying(bTable, bHours) # {}) =>
    LET top == LargestQualifying(bTable, bHours)
        first == CHOOSE i \in top : \A j \in top : i <= j
    IN /\ bAmount = bTable[first].amount
       /\ (\A i \in top : bTable[i].amount = bTable[first].amount) =>
            \A tbl \in Reorderings(bTable) :
              calculateBill(bSession, billIn.exitTime, billIn.grace,
                            RulesWith(bSession.vehicleType, tbl)).amount
                = bAmount
       /\ bTable = DefaultPricingRules["car"] =>
            /\ bMinutes = 90 => bAmount = 50
            /\ bMinutes = 720 => bAmount = 500

\* C9 witness: exactly 720 minutes on a table stored out of order
C9_Witness ==
  /\ pastGrace
  /\ bMinutes = 720
  /\ bTable = <<Tier(1, 50), Tier(24, 900), Tier(12, 500)>>
  /\ bAmount = 500

\* C10: past the grace period with no tier reached, the amount is
\* billedHours times the hourly rate: the amount of a one-hour tier when the
\* table has one, the baseline 50 otherwise.
C10_HourlyFallback ==
  (pastGrace /\ Qualifying(bTable, bHours) = {}) =>
    LET oneHour == {i \in 1..Len(bTable) : bTable[i].hours = 1}
    IN IF oneHour # {}
         THEN \E i \in oneHour : bAmount = bHours * bTable[i].amount
         ELSE bAmount = bHours * BaselineHourRate

\* C10 witness: 90 minutes against a table whose only tiers start at 12
\* hours is billed two hours at the baseline
C10_Witness ==
  /\ pastGrace
  /\ bMinutes = 90
  /\ bTable = <<Tier(12, 500), Tier(24, 900)>>
  /\ bAmount = 2 * BaselineHourRate

\* the amounts of a table do not decrease with the thresholds
AmountsNonDecreasing(tbl) ==
  \A i, j \in 1..Len(tbl) :
    tbl[i].hours <= tbl[j].hours => tbl[i].amount <= tbl[j].amount

\* the amount of the same session, grace period and rules at another exit
AmountAt(exitTime) ==
  calculateBill(bSession, exitTime, billIn.grace, billIn.rules).amount

\* the exits of the same session with at least as many elapsed minutes
LaterExits ==
  {e \in BillExitTimes :
     differenceInMinutes(e, bSession.entryTime) >= bMinutes}

AddressedBy(x) ==
  LET hits == {i \in 1..Len(sessions) :
                 sessions[i].id = x \/ sessions[i].vehicleNumber = x}
  IN IF hits = {} THEN 0 ELSE CHOOSE i \in hits : \A j \in hits : i <= j

\* x addresses an active, non-exempt session past the grace period whose
\* category has no tier configured
TariffMissingFor(x) ==
  LET si == AddressedBy(x)
  IN /\ si # 0
     /\ sessions[si].status = "active"
     /\ ~sessions[si].isFree
     /\ \E d \in (graceTimeMinutes + 1)..(MaxTime \div UnitsPerMinute) :
          IsElapsedMinutes(d, sessions[si].entryTime, now)
     /\ \/ sessions[si].vehicleType \notin DOMAIN pricingRules
        \/ pricingRules[sessions[si].vehicleType] = <<>>

\* C12: the settlement of a non-exempt session past the grace period whose
\* category has no tier is refused: an alert is raised, nothing is sent to
\* the store, and list and store are left as they are.  (SeqSpec)
C12_NoTariffNoSettlement ==
  [][ \A x \in ExitInputs :
        (HandleExitStart(TRUE, x) /\ TariffMissingFor(x)) =>
          /\ alertMsg' # NoAlert
          /\ UNCHANGED <<reqs, sessions, dbSessions>>
    ]_vars

\* C13: no completed session, in the list or in the store, has an exit
\* before its entry or a negative durationMinutes.  (SeqSpec)
C13_NoNegativeInterval ==
  /\ \A i \in 1..Len(sessions) :
       sessions[i].status = "completed" =>
         /\ sessions[i].exitTime[1] >= sessions[i].entryTime
         /\ sessions[i].durationMinutes[1] >= 0
  /\ \A i \in 1..Len(dbSessions) :
       dbSessions[i].status = "completed" =>
         /\ dbSessions[i].exitTime[1] >= dbSessions[i].entryTime
         /\ dbSessions[i].durationMinutes[1] >= 0

\* vehicle v has a pass, and no pass of v is valid now (valid: now before
\* the expiry instant)
PassNotValid(v) ==
  /\ \E i \in 1..Len(passes) : passes[i].vehicleNumber = v
  /\ \A i \in 1..Len(passes) :
       passes[i].vehicleNumber = v => ~(now < passes[i].expiryDate)

\* C14: an admission for a vehicle with no active session whose pass is
\* not valid now, the expiry instant itself included, raises the
\* membership alert and creates nothing.  (SeqSpec)
C14_InvalidPassRejected ==
  [][ \A v \in Vehicles :
        ( /\ \E t \in EntryVehicleTypes : HandleEntryStart(TRUE, v, t)
          /\ ActiveIn(sessions, v) = {}
          /\ PassNotValid(v) )
        => /\ alertMsg' = <<AlertExpired, v>>
           /\ UNCHANGED <<reqs, sessions, dbSessions>>
    ]_vars

\* vehicle v has a pass that is valid now
HasValidPass(v) ==
  \E i \in 1..Len(passes) :
    passes[i].vehicleNumber = v /\ now < passes[i].expiryDate

\* C15: an admission for a vehicle with no active session and a pass whose
\* expiry is in the future is sent to the store with isFree = TRUE, whatever
\* the exemption toggle says, and once the store has accepted it the session
\* of the list and the row of the store are exempt.  (SeqSpec)
C15_MemberAdmittedExempt ==
  [][ /\ \A v \in Vehicles :
           ( /\ \E t \in EntryVehicleTypes : HandleEntryStart(TRUE, v, t)
             /\ ActiveIn(sessions, v) = {}
             /\ HasValidPass(v) )
           => /\ alertMsg' = NoAlert
              /\ \E k \in Slots :
                   /\ reqs'[k].op = "entry"
                   /\ reqs'[k].item.vehicleNumber = v
                   /\ reqs'[k].item.isFree
      /\ \A k \in Slots :
           (HandleEntryResume(k) /\ ~reqs[k].error) =>
             /\ \E i \in 1..Len(sessions') :
                  /\ sessions'[i].id = reqs[k].item.id
                  /\ sessions'[i].isFree = reqs[k].item.isFree
             /\ \E j \in 1..Len(dbSessions') :
                  /\ dbSessions'[j].id = reqs[k].item.id
                  /\ dbSessions'[j].isFree = reqs[k].item.isFree
    ]_vars

\* C15 witness: the only thing the operator did was to admit a member
\* vehicle (the toggle was never touched), and its session is exempt in the
\* list and in the store
C15_Witness ==
  /\ issued.ops = 1 /\ issued.toggles = 0
  /\ \E i \in 1..Len(sessions), j \in 1..Len(dbSessions) :
       /\ sessions[i].status = "active" /\ sessions[i].isFree
       /\ HasValidPass(sessions[i].vehicleNumber)
       /\ dbSessions[j].id = sessions[i].id /\ dbSessions[j].isFree
       /\ dbSessions[j].user_id = userId

\* ====================================================================
\* Properties of the renewal date, checked under RenewSpec
\* ====================================================================
renewed == renewOut # None
rExpiry == renewIn.currentExpiry
rNow == renewIn.now
rNew == renewOut[1]

\* the calendar date <<month, day of month>> of an instant
DateOf(t) == MonthAndDay(0, EpochOffset + t \div DayUnits)

\* t2 is t1 moved one calendar month on: the same time of day, the next
\* month, the same day of the month or the last one the month has
IsOneMonthAfter(t2, t1) ==
  LET a == DateOf(t1)
      b == DateOf(t2)
  IN /\ b[1] = a[1] + 1
     /\ b[2] = IF a[2] > MonthLen(a[1] + 1) THEN MonthLen(a[1] + 1) ELSE a[2]
     /\ t2 % DayUnits = t1 % DayUnits

\* C16: a renewal at now sets the expiry one calendar month after the later
\* of the current expiry and now: later than both, counted from the current
\* expiry while the pass is valid and from now once it has expired.
C16_RenewalFromLater ==
  renewed =>
    /\ rNew > rExpiry /\ rNew > rNow
    /\ IsOneMonthAfter(rNew, IF rExpiry > rNow THEN rExpiry ELSE rNow)
    /\ rExpiry > rNow => IsOneMonthAfter(rNew, rExpiry)
    /\ rExpiry < rNow => IsOneMonthAfter(rNew, rNow)

\* C16 witness: a pass running out on 31 March is renewed on 1 March and
\* then runs to 30 April
C16_Witness ==
  /\ renewed
  /\ DateOf(rNow) = <<2, 1>>
  /\ DateOf(rExpiry) = <<2, 31>>
  /\ DateOf(rNew) = <<3, 30>>

\* ====================================================================
\* The exemption toggle, checked under SeqSpec
\* ====================================================================
\* vehicle v has no pass of the signed-in tenant, in the list or the store
HasNoPass(v) ==
  /\ \A i \in 1..Len(passes) : passes[i].vehicleNumber # v
  /\ \A i \in 1..Len(dbPasses) :
       dbPasses[i].user_id = userId => dbPasses[i].vehicleNumber # v

\* C20: the session of a vehicle without a pass is exempt only if the
\* operator asked for it: while the operator has never touched the
\* exemption toggle, no session of such a vehicle is exempt, in the list or
\* in the store.  (SeqSpec)
C20_ExemptOnlyOnRequest ==
  issued.toggles = 0 =>
    /\ \A i \in 1..Len(sessions) :
         HasNoPass(sessions[i].vehicleNumber) => ~sessions[i].isFree
    /\ \A i \in 1..Len(dbSessions) :
         (dbSessions[i].user_id = userId /\ HasNoPass(dbSessions[i].vehicleNumber))
           => ~dbSessions[i].isFree

\* ====================================================================
\* Passes, store failures and tenants
\* ====================================================================
\* every pass of the old list that is still in the new one expires no
\* earlier there
ExpiryNotEarlier(x, list2) ==
  \A j \in 1..Len(list2) :
    list2[j].id = x.id => list2[j].expiryDate >= x.expiryDate

\* C17: no step moves the expiryDate of a pass backward, in the store or in
\* the in-memory pass list, whatever the interleaving of the requests.
\* (Spec)
C17_ExpiryNeverDecreases ==
  [][ /\ \A i \in 1..Len(dbPasses) : ExpiryNotEarlier(dbPasses[i], dbPasses')
      /\ \A i \in 1..Len(passes) : ExpiryNotEarlier(passes[i], passes')
    ]_vars

\* the session or row of this id is active and carries no settlement
Unsettled(list, id) ==
  \E i \in 1..Len(list) :
    /\ list[i].id = id
    /\ list[i].status = "active"
    /\ list[i].exitTime = None
    /\ list[i].amount = None
    /\ list[i].durationMinutes = None

\* C18: when the store refuses the insert of an admission the handler
\* raises its alert, leaves list and store as they are (the session is in
\* neither) and sends nothing again; when the store refuses the update of a
\* settlement the handler raises its alert, sends nothing again, and the
\* session stays active with no exitTime, amount or durationMinutes, in the
\* list and in the store.  (SeqSpec)
C18_FailureChangesNothing ==
  [][ \A k \in Slots :
        /\ (HandleEntryResume(k) /\ reqs[k].error) =>
             /\ alertMsg' = <<AlertEntryFailed, reqs[k].item.vehicleNumber>>
             /\ UNCHANGED <<sessions, dbSessions>>
             /\ \A i \in 1..Len(sessions') : sessions'[i].id # reqs[k].item.id
             /\ \A i \in 1..Len(dbSessions') :
                  dbSessions'[i].id # reqs[k].item.id
             /\ reqs' = [j \in Slots |-> IdleReq]
        /\ (HandleExitResume(k) /\ reqs[k].error) =>
             /\ alertMsg' = <<AlertExitFailed, reqs[k].item.id>>
             /\ UNCHANGED <<sessions, dbSessions>>
             /\ Unsettled(sessions', reqs[k].item.id)
             /\ Unsettled(dbSessions', reqs[k].item.id)
             /\ reqs' = [j \in Slots |-> IdleReq]
    ]_vars

\* C18 witness: the settlement of a session has just failed at the store,
\* and the session is active and unsettled in the list and in the store
C18_Witness ==
  /\ alertMsg[1] = AlertExitFailed
  /\ Unsettled(sessions, alertMsg[2])
  /\ Unsettled(dbSessions, alertMsg[2])
  /\ reqs = [j \in Slots |-> IdleReq]

\* the rows of a table that belong to another tenant than the signed-in one
RowsOfOthers(rows) ==
  LET Foreign(row) == row.user_id # userId IN SelectSeq(rows, Foreign)

\* C19: no step creates, changes or deletes a session row or a pass row of
\* a tenant other than the signed-in one.  (Spec)
C19_OtherTenantsUntouched ==
  [][ /\ RowsOfOthers(dbSessions') = RowsOfOthers(dbSessions)
      /\ RowsOfOthers(dbPasses') = RowsOfOthers(dbPasses)
    ]_vars

\* C19 witness: the signed-in tenant has purged its sessions and renewed or
\* created a pass, and the session and the pass of the other tenant are
\* still in the store
C19_Witness ==
  /\ userId = Me
  /\ \A i \in 1..Len(dbSessions) : dbSessions[i].user_id # Me
  /\ \E i \in 1..Len(dbPasses) :
       dbPasses[i].user_id = Me /\ dbPasses[i].expiryDate > MaxTime
  /\ RowsOfOthers(dbSessions) = RowsOfOthers(InitialDbSessions)
  /\ RowsOfOthers(dbPasses) = RowsOfOthers(InitialDbPasses)
  /\ RowsOfOthers(dbSessions) # <<>> /\ RowsOfOthers(dbPasses) # <<>>

\* ====================================================================
\* Exemption at settlement and the frame of a settlement (SeqSpec)
\* ====================================================================
\* the tariff amount of a session, its exemption left aside
TariffAmount(x, t) ==
  calculateBill([entryTime |-> x.entryTime, vehicleType |-> x.vehicleType,
                 isFree |-> FALSE],
                t, graceTimeMinutes, pricingRules).amount

\* C21: the settlement of an active session sends to the store amount 0
\* when the session was stored as exempt and the tariff amount when it was
\* not, whatever passes exist at the exit; the store and the list then hold
\* that amount.  (SeqSpec)
C21_SettlesByStoredExemption ==
  [][ /\ \A x \in ExitInputs :
           LET si == AddressedBy(x)
           IN ( /\ HandleExitStart(TRUE, x)
                /\ userId # 0
                /\ si # 0 /\ sessions[si].status = "active" )
              => \E k \in Slots :
                   /\ reqs'[k].op = "exit"
                   /\ reqs'[k].item.id = sessions[si].id
                   /\ reqs'[k].item.amount =
                        IF sessions[si].isFree THEN 0
                        ELSE TariffAmount(sessions[si], now)
      /\ \A k \in Slots :
           (HandleExitResume(k) /\ ~reqs[k].error) =>
             /\ \E i \in 1..Len(sessions') :
                  /\ sessions'[i].id = reqs[k].item.id
                  /\ sessions'[i].amount = Some(reqs[k].item.amount)
             /\ \E j \in 1..Len(dbSessions') :
                  /\ dbSessions'[j].id = reqs[k].item.id
                  /\ dbSessions'[j].amount = Some(reqs[k].item.amount)
    ]_vars

\* C21 witness: a session admitted as exempt through a pass valid at its
\* entry (the toggle was never touched) was settled after the pass had run
\* out and past the grace period, with amount 0
C21_Witness ==
  /\ issued.toggles = 0
  /\ \E i \in 1..Len(sessions), p \in 1..Len(passes) :
       /\ sessions[i].status = "completed" /\ sessions[i].isFree
       /\ passes[p].vehicleNumber = sessions[i].vehicleNumber
       /\ sessions[i].entryTime < passes[p].expiryDate
       /\ passes[p].expiryDate < sessions[i].exitTime[1]
       /\ sessions[i].durationMinutes[1] > graceTimeMinutes
       /\ sessions[i].amount = Some(0)
       /\ TariffAmount(sessions[i], sessions[i].exitTime[1]) > 0

\* a non-exempt session was settled at the tariff, above 0, while its
\* vehicle held a pass created after the entry and valid at the exit
C21_BilledDespiteNewPass ==
  \E i \in 1..Len(sessions), p \in 1..Len(passes) :
    /\ sessions[i].status = "completed" /\ ~sessions[i].isFree
    /\ passes[p].vehicleNumber = sessions[i].vehicleNumber
    /\ passes[p].expiryDate > sessions[i].exitTime[1]
    /\ sessions[i].amount = Some(TariffAmount(sessions[i],
                                              sessions[i].exitTime[1]))
    /\ sessions[i].amount[1] > 0

\* what a settlement never writes
FixedFields(x) ==
  <<x.id, x.vehicleNumber, x.vehicleType, x.entryTime, x.isFree,
    x.proofImage>>

\* list2 is list with at most the written fields of the entry of this id
\* changed
OnlySettles(list, list2, id) ==
  /\ Len(list2) = Len(list)
  /\ \A i \in 1..Len(list) :
       IF list[i].id = id
         THEN FixedFields(list2[i]) = FixedFields(list[i])
         ELSE list2[i] = list[i]

\* C22: each step of a settlement (the call, the store's update, the
\* handler's resumption) leaves the passes and the settings as they are
\* and changes, in the session list and the session table, at most the
\* status, exitTime, amount and durationMinutes of the session it settles.
\* (SeqSpec)
C22_SettlementFrame ==
  [][ /\ \A x \in ExitInputs :
           HandleExitStart(TRUE, x) =>
             UNCHANGED <<sessions, dbSessions, passes, dbPasses,
                         graceTimeMinutes, pricingRules, dbSettings>>
      /\ \A k \in Slots :
           (StoreUpdateSession(k) \/ HandleExitResume(k)) =>
             /\ OnlySettles(sessions, sessions', reqs[k].item.id)
             /\ OnlySettles(dbSessions, dbSessions', reqs[k].item.id)
             /\ UNCHANGED <<passes, dbPasses, graceTimeMinutes,
                            pricingRules, dbSettings>>
    ]_vars

\* C22 witness: the session that carries a proof image has been settled,
\* in the list and in the store, with its proof and entry as before, next
\* to a session admitted earlier that is still active
C22_Witness ==
  \E i, j \in 1..Len(sessions), r \in 1..Len(dbSessions) :
    /\ sessions[i].status = "completed"
    /\ sessions[i].proofImage # None
    /\ FixedFields(sessions[i]) = FixedFields(SessionOfRow(InitialDbSessions[2]))
    /\ dbSessions[r].id = sessions[i].id
    /\ dbSessions[r].status = "completed"
    /\ FixedFields(dbSessions[r]) = FixedFields(InitialDbSessions[2])
    /\ dbSessions[r].amount = sessions[i].amount
    /\ j # i /\ sessions[j].status = "active"

\* ====================================================================
\* The order of the admission checks (SeqSpec)
\* ====================================================================
\* vehicle v has a pass in the list that has run out
HasExpiredPass(v) ==
  \E i \in 1..Len(passes) :
    passes[i].vehicleNumber = v /\ passes[i].expiryDate < now

\* C23: an admission for a vehicle that has an active session is refused
\* with the duplicate alert, also when the vehicle has an expired pass, and
\* no admission is refused with the membership alert while the vehicle has
\* an active session.  (SeqSpec)
C23_DuplicateBeforeMembership ==
  [][ \A v \in Vehicles :
        (\E t \in EntryVehicleTypes : HandleEntryStart(TRUE, v, t)) =>
          /\ (ActiveIn(sessions, v) # {} /\ HasExpiredPass(v)) =>
               /\ alertMsg' = <<AlertDuplicate, v>>
               /\ UNCHANGED <<reqs, sessions, dbSessions>>
          /\ alertMsg' = <<AlertExpired, v>> => ActiveIn(sessions, v) = {}
    ]_vars

\* C23 witness: an admission for a vehicle with an active session and an
\* expired pass has just been refused as a duplicate
C23_Witness ==
  \E v \in Vehicles :
    /\ alertMsg = <<AlertDuplicate, v>>
    /\ ActiveIn(sessions, v) # {}
    /\ HasExpiredPass(v)

\* ====================================================================
\* Passes per vehicle (SeqSpec)
\* ====================================================================
\* positions of the passes of vehicle v in a pass list
PassesIn(list, v) == {i \in 1..Len(list) : list[i].vehicleNumber = v}

\* positions of the pass rows of tenant uid and vehicle v in the store
PassRows(rows, uid, v) ==
  {i \in 1..Len(rows) : rows[i].user_id = uid /\ rows[i].vehicleNumber = v}

\* C24: with pass creations and renewals run one at a time, a tenant has at
\* most one pass per vehicle number, in the in-memory pass list and in the
\* durable store.  (SeqSpec)
C24_OnePassPerVehicle ==
  \A v \in Vehicles :
    /\ Cardinality(PassesIn(passes, v)) <= 1
    /\ \A uid \in Tenants : Cardinality(PassRows(dbPasses, uid, v)) <= 1

\* ====================================================================
\* The settings (SeqSpec)
\* ====================================================================
\* every category of the rules has a tier of one hour
HasHourTier(rules) ==
  \A t \in VehicleTypes :
    \E i \in 1..Len(rules[t]) : rules[t][i].hours = 1

\* C25: whatever settings edits were made, the tariff table of every
\* category has a tier with hours = 1, in the in-memory pricing rules and
\* in the stored ones.  (SeqSpec)
C25_HourTierKept ==
  /\ HasHourTier(pricingRules)
  /\ dbSettings.pricing_rules # None => HasHourTier(dbSettings.pricing_rules[1])

\* ====================================================================
\* Termination of admissions and settlements (FlowSpec)
\* ====================================================================
\* slot k holds an admission or a settlement that has not finished
InFlight(k) == reqs[k].op \in {"entry", "exit"}

\* C26: every admission or settlement that was sent to the store finishes
\* (its handler resumes and reports the outcome), given only that the
\* store answers and resumed handlers are scheduled.  (FlowSpec)
C26_RequestsFinish ==
  \A k \in Slots : InFlight(k) ~> ~InFlight(k)

\* a request whose call the store has answered can resume whatever the
\* other requests are doing, as long as no alert box is up
C26_ResumesWhenPageRuns ==
  \A k \in Slots :
    /\ (InFlight(k) /\ reqs[k].pc = "sent") =>
         ENABLED (StoreInsertSession(k) \/ StoreUpdateSession(k))
    /\ (InFlight(k) /\ reqs[k].pc = "answered" /\ PageRuns) =>
         ENABLED (HandleEntryResume(k) \/ HandleExitResume(k))

\* ====================================================================
\* The session list against the store (Spec)
\* ====================================================================
\* the sessions of tenant uid as the store holds them, newest first
StoredSessions(uid) ==
  LET rows == SelectDesc(dbSessions, uid)
  IN [i \in 1..Len(rows) |-> SessionOfRow(rows[i])]

\* C27: after a load that succeeded, whenever no request is in flight the
\* in-memory session list is the list of the tenant's session rows of the
\* store, field by field, however the admissions, settlements and purges
\* of the client were interleaved.  (Spec)
C27_ListMatchesStore ==
  (loadPc = "done" /\ userId # 0 /\ Busy = {}) =>
    sessions = StoredSessions(userId)

\* ====================================================================
\* The settings effect during the initial load (SeqSpec)
\* ====================================================================
\* C28: no step of loadData, whether it ends normally, fails or finds no
\* user, changes the grace period or the pricing rules held in the store.
\* (SeqSpec)
C28_LoadKeepsStoredSettings ==
  [][ loadPc' # loadPc => dbSettings' = dbSettings ]_vars

\* ====================================================================
\* Overlapping renewals (Spec)
\* ====================================================================
\* C29: every renewal the store accepts for a pass that is valid at every
\* instant of the run moves the stored expiryDate of that pass one calendar
\* month on from the value stored before, so that n successful renewals
\* add n months, also when renewal requests overlap.  (Spec)
C29_EachRenewalAddsAMonth ==
  [][ \A k \in Slots :
        (StoreUpdatePass(k) /\ ~reqs'[k].error) =>
          \A i \in 1..Len(dbPasses) :
            ( /\ dbPasses[i].id = reqs[k].item.id
              /\ dbPasses[i].user_id = reqs[k].uid
              /\ dbPasses[i].expiryDate > MaxTime )
            => IsOneMonthAfter(dbPasses'[i].expiryDate, dbPasses[i].expiryDate)
    ]_vars

\* ====================================================================
\* The hourly fallback of the pricing engine (BillSpec)
\* ====================================================================
\* the bill was computed by the last return of calculateBill: the session
\* is not exempt, the minutes are past the grace period and find returned
\* no rule
reachedFallback ==
  /\ billed /\ ~bSession.isFree
  /\ ~withinGrace(bMinutes, billIn.grace)
  /\ applicableRuleOf(sortedRulesOf(bTable), totalHoursOf(bMinutes)) = 0

\* C30: whenever calculateBill reaches the per-hour fallback with a grace
\* period of at least 0, the table has no tier with hours = 1 and the
\* amount is the started hours times the baseline 50.  (BillSpec)
C30_FallbackRateIsBaseline ==
  (reachedFallback /\ billIn.grace >= 0) =>
    /\ \A i \in 1..Len(bTable) : bTable[i].hours # 1
    /\ bHours >= 1
    /\ bAmount = bHours * BaselineHourRate

\* C30 witness: eleven hours against a table whose only tier starts at
\* twelve are billed by the fallback, 11 x 50
C30_Witness ==
  /\ reachedFallback
  /\ bTable = <<Tier(12, 500)>>
  /\ bMinutes = 11 * 60
  /\ bAmount = 11 * BaselineHourRate

====
